---- MODULE Spec2Model ----
(***************************************************************************)
(* Model of the symbolic expression evaluation cache                       *)
(* (utils/theano_func_wrapper.py) and of the network prior components      *)
(* (components/graph.py) of theano_pyglm.                                   *)
(*                                                                          *)
(* Python values are modelled as follows.                                   *)
(*   str    a sequence of one-character strings, ordered by ASCII code     *)
(*   dict   a record [order, map]: `map` is the mapping, `order` is the    *)
(*          order in which items() enumerates the keys (any permutation)   *)
(*   object a node record [t, v]: t is the kind ("dict", "sym", "val",     *)
(*          "none"), v the payload                                          *)
(***************************************************************************)
EXTENDS Integers, Sequences, FiniteSets, TLC

(***************************************************************************)
(* Python strings                                                           *)
(***************************************************************************)
LowerCase == <<"a","b","c","d","e","f","g","h","i","j","k","l","m",
               "n","o","p","q","r","s","t","u","v","w","x","y","z">>
UpperCase == <<"A","B","C","D","E","F","G","H","I","J","K","L","M",
               "N","O","P","Q","R","S","T","U","V","W","X","Y","Z">>

IndexIn(c, seq) == CHOOSE i \in 1..Len(seq) : seq[i] = c
IsIn(c, seq) == \E i \in 1..Len(seq) : seq[i] = c

\* ord(c): the ASCII code of a character
Ord(c) == IF IsIn(c, UpperCase) THEN 64 + IndexIn(c, UpperCase)
          ELSE IF IsIn(c, LowerCase) THEN 96 + IndexIn(c, LowerCase)
          ELSE 95   \* "_"

\* Python's < on str: lexicographic by character code, a proper prefix first
RECURSIVE StrLess(_, _)
StrLess(s, t) ==
    IF t = <<>> THEN FALSE
    ELSE IF s = <<>> THEN TRUE
    ELSE IF Ord(Head(s)) # Ord(Head(t)) THEN Ord(Head(s)) < Ord(Head(t))
    ELSE StrLess(Tail(s), Tail(t))

(***************************************************************************)
(* Python objects and dictionaries                                          *)
(***************************************************************************)
EmptyDict == [order |-> <<>>, map |-> <<>>]
None == [t |-> "none", v |-> <<>>]
DictNode(d) == [t |-> "dict", v |-> d]
SymNode(id) == [t |-> "sym", v |-> id]
ValNode(x) == [t |-> "val", v |-> x]

\* isinstance(v, dict)
IsDict(n) == n.t = "dict"
\* v is None
IsNone(n) == n.t = "none"

\* d.items(): the (key, value) pairs in the dictionary's enumeration order
Items(d) == [i \in 1..Len(d.order) |-> <<d.order[i], d.map[d.order[i]]>>]

\* d[k] = v: a new key is appended to the enumeration, an old one keeps its place
DictSet(d, k, v) ==
    [order |-> IF k \in DOMAIN d.map THEN d.order ELSE Append(d.order, k),
     map |-> [x \in (DOMAIN d.map) \cup {k} |-> IF x = k THEN v ELSE d.map[x]]]

\* sorted(items, key=lambda t: t[0]): insertion of each item before the first
\* item with a larger key (stable)
RECURSIVE InsertSorted(_, _)
InsertSorted(it, seq) ==
    IF seq = <<>> THEN <<it>>
    ELSE IF StrLess(it[1], Head(seq)[1]) THEN <<it>> \o seq
    ELSE <<Head(seq)>> \o InsertSorted(it, Tail(seq))

RECURSIVE SortedByKey(_)
SortedByKey(items) ==
    IF items = <<>> THEN <<>>
    ELSE InsertSorted(items[Len(items)], SortedByKey(SubSeq(items, 1, Len(items) - 1)))

(***************************************************************************)
(* utils/theano_func_wrapper.py: _flatten and _extract_vals                 *)
(***************************************************************************)
\* the loop header of _flatten: sorted(d.items(), key=lambda t: t[0])
FlattenUnsorted(d) == Items(d)
FlattenItems(d) == SortedByKey(Items(d))

\* _flatten(d): the leaves of a hierarchical dictionary, keys visited in
\* sorted order at every level
RECURSIVE _flatten(_)
_flatten(d) ==
    LET its == FlattenItems(d)
        RECURSIVE walk(_)
        walk(i) ==
            IF i > Len(its) THEN <<>>
            ELSE LET v == its[i][2]
                 IN (IF IsDict(v) THEN _flatten(v.v) ELSE <<v>>) \o walk(i + 1)
    IN walk(1)

\* the loop header of _extract_vals: sorted(syms.items(), key=lambda t: t[0])
ExtractUnsorted(d) == Items(d)
ExtractItems(d) == SortedByKey(Items(d))

\* try: x[k]  except: None   (x may be None or any non-dictionary object)
TryGet(x, k) == IF IsDict(x) /\ k \in DOMAIN x.v.map THEN x.v.map[k] ELSE None

\* the result of a call: a returned list, or a raised exception whose message
\* is built from the keys in `msg`
Returned(l) == [ok |-> TRUE, l |-> l, msg |-> <<>>]
Raised(keys) == [ok |-> FALSE, l |-> <<>>, msg |-> keys]

\* v = vv if (vv is not None) else vd
PickValue(vv, vd) == IF ~IsNone(vv) THEN vv ELSE vd

\* _extract_vals(syms, vals, defaults): syms is a dictionary; vals and
\* defaults are objects (a dictionary node or None)
RECURSIVE _extract_vals(_, _, _)
_extract_vals(syms, vals, defaults) ==
    LET its == ExtractItems(syms)
        RECURSIVE walk(_, _)
        walk(i, l) ==
            IF i > Len(its) THEN Returned(l)
            ELSE LET sk == its[i][1]
                     sv == its[i][2]
                     vv == TryGet(vals, sk)
                     vd == TryGet(defaults, sk)
                 IN IF IsNone(vv) /\ IsNone(vd) THEN Raised(<<sk>>)
                    ELSE IF IsDict(sv)
                         THEN LET lv == _extract_vals(sv.v, vv, vd)
                              IN IF lv.ok THEN walk(i + 1, l \o lv.l) ELSE lv
                         ELSE walk(i + 1, Append(l, PickValue(vv, vd)))
    IN walk(1, <<>>)

(***************************************************************************)
(* Inputs of the flatten/extract checks: every symbol tree of depth <= 2   *)
(* over Keys, in every enumeration order, with every value_tree/defaults   *)
(* of matching shape.                                                       *)
(***************************************************************************)
Keys == {<<"a">>, <<"a", "b">>}

Range(seq) == {seq[i] : i \in 1..Len(seq)}

\* the sequences of distinct keys: the enumeration orders of the dictionaries
KeySeqs ==
    {s \in UNION {[1..n -> Keys] : n \in 0..Cardinality(Keys)} :
        \A i, j \in 1..Len(s) : i # j => s[i] # s[j]}

\* a dictionary of leaf symbols; a symbol is identified by its path
LeafDict(ks, prefix) ==
    [order |-> ks, map |-> [k \in Range(ks) |-> SymNode(Append(prefix, k))]]

Shapes == {[leaf |-> TRUE, ks |-> <<>>]} \cup {[leaf |-> FALSE, ks |-> s] : s \in KeySeqs}

SymTrees ==
    UNION {{[order |-> ks,
             map |-> [k \in Range(ks) |->
                        IF sh[k].leaf THEN SymNode(<<k>>)
                        ELSE DictNode(LeafDict(sh[k].ks, <<k>>))]] :
              sh \in [Range(ks) -> Shapes]} : ks \in KeySeqs}

\* some enumeration order of the keys in S
KeyOrder(S) == CHOOSE s \in KeySeqs : Range(s) = S

\* the value stored for symbol `id` in the tree named `tag`
ValueOf(tag, id) == ValNode(<<tag, id>>)

\* the trees of values shaped like `d`: each key is absent, holds None (when
\* `nones`), or holds a value (for a leaf) or a tree of values (for a mapping)
RECURSIVE ValDicts(_, _, _)
ValDicts(d, tag, nones) ==
    LET opt(n) == (IF nones THEN {None} ELSE {}) \cup
                  (IF IsDict(n) THEN {DictNode(x) : x \in ValDicts(n.v, tag, nones)}
                   ELSE {ValueOf(tag, n.v)})
        all == UNION {opt(d.map[k]) : k \in DOMAIN d.map}
    IN UNION {{[order |-> KeyOrder(S), map |-> m] :
                 m \in {g \in [S -> all] : \A k \in S : g[k] \in opt(d.map[k])}} :
              S \in SUBSET (DOMAIN d.map)}

ValTrees(d) == {DictNode(x) : x \in ValDicts(d, "vals", TRUE)}
DefaultTrees(d) == {None} \cup {DictNode(x) : x \in ValDicts(d, "defaults", FALSE)}

(***************************************************************************)
(* utils/theano_func_wrapper.py: seval                                      *)
(***************************************************************************)
\* a numpy array: its shape and its buffer (the elements in C order)
NdArray(shape, data) == [t |-> "ndarray", v |-> [shape |-> shape, data |-> data]]

\* hashlib.sha1(v).hexdigest() of an array: a digest of the array's buffer,
\* which holds the elements and not the shape; the digest is modelled as
\* collision free
Sha1Hex(buffer) == [t |-> "str", v |-> <<"sha1", buffer>>]
Sha1OfArray(n) == Sha1Hex(n.v.data)

\* hash_value = lambda v: hashlib.sha1(v).hexdigest() if isinstance(v, np.ndarray) else v
hash_value(v) == IF v.t = "ndarray" THEN Sha1OfArray(v) ELSE v

\* tuple(map(lambda (k,v): (k, hash_value(v)), givens))
hashable_givens(gs) == [i \in 1..Len(gs) |-> <<gs[i][1], hash_value(gs[i][2])>>]
\* tuple(map(lambda v: hash_value(v), _flatten(syms)))
hashable_syms(sy) == LET l == _flatten(sy) IN [i \in 1..Len(l) |-> hash_value(l[i])]
\* key = (expr, hashable_syms, hashable_givens)
CacheKey(e, sy, gs) == <<e, hashable_syms(sy), hashable_givens(gs)>>

\* theano.function(sargs, expr, givens=givens, on_unused_input='ignore'): the
\* evaluator of expr with positional parameters sargs and the givens
\* substituted
TheanoFunction(sa, e, gs) == [expr |-> e, sargs |-> sa, givens |-> gs]
NoFunction == TheanoFunction(<<>>, "", <<>>)

\* _func_cache[key] = f
CacheReset(cache, key, fn) == [k \in {key} |-> fn]
CacheDiscard(cache, key, fn) == cache
CacheStore(cache, key, fn) ==
    [k \in (DOMAIN cache) \cup {key} |-> IF k = key THEN fn ELSE cache[k]]

\* f(*args): the value the evaluator computes from the arguments
Apply(fn, args) == Returned(<<[f |-> fn, args |-> args]>>)

(***************************************************************************)
(* components/graph.py: numbers                                             *)
(*                                                                          *)
(* A probability is a fixed-point number in units of 1e-8, so that 1e-8    *)
(* and 1.0 - 1e-8 are exact.  A float result is an extended real: finite,  *)
(* -inf, +inf or nan.  log is quantised to Log2Floor(p) - Log2Floor(Unit); *)
(* it keeps log(1) = 0, log(0) = -inf, the sign and the monotonicity.      *)
(***************************************************************************)
Unit == 100000000
Eps == 1

Min(a, b) == IF a < b THEN a ELSE b
Max(a, b) == IF a > b THEN a ELSE b

Fin(x) == [cls |-> "fin", x |-> x]
NegInf == [cls |-> "ninf", x |-> 0]
PosInf == [cls |-> "pinf", x |-> 0]
NaN == [cls |-> "nan", x |-> 0]

\* IEEE addition
XAdd(a, b) ==
    IF a.cls = "nan" \/ b.cls = "nan" THEN NaN
    ELSE IF a.cls = "fin" /\ b.cls = "fin" THEN Fin(a.x + b.x)
    ELSE IF a.cls = "fin" THEN b
    ELSE IF b.cls = "fin" THEN a
    ELSE IF a.cls = b.cls THEN a
    ELSE NaN

\* IEEE product of an integer-valued factor k and a
XMulInt(k, a) ==
    IF a.cls = "nan" THEN NaN
    ELSE IF a.cls = "fin" THEN Fin(k * a.x)
    ELSE IF k = 0 THEN NaN
    ELSE IF k > 0 THEN a
    ELSE IF a.cls = "ninf" THEN PosInf ELSE NegInf

RECURSIVE Log2Floor(_)
Log2Floor(p) == IF p <= 1 THEN 0 ELSE 1 + Log2Floor(p \div 2)

\* np.log / T.log of a probability
XLog(p) == IF p = 0 THEN NegInf ELSE Fin(Log2Floor(p) - Log2Floor(Unit))

\* T.sum / np.sum of the terms t[e], e in S
RECURSIVE SumSet(_, _)
SumSet(S, t) ==
    IF S = {} THEN Fin(0)
    ELSE LET e == CHOOSE e \in S : TRUE IN XAdd(t[e], SumSet(S \ {e}, t))

\* the index pairs of an n x n matrix
Pairs(n) == (1..n) \X (1..n)

\* T.ones((N, N))
Ones(n) == [p \in Pairs(n) |-> 1]

(***************************************************************************)
(* components/graph.py: the graph models                                    *)
(*                                                                          *)
(* A configuration is model = [N, prms]: prms is model['network']['graph'] *)
(* without its 'type', a function from option names to numbers, and type   *)
(* is the 'type' string.  An object is a record: its class, the attributes *)
(* it has, and their values.                                                *)
(***************************************************************************)
NoException == [type |-> "", arg |-> <<>>]
\* d[k] for a key the dictionary does not hold
KeyError(k) == [type |-> "KeyError", arg |-> k]
\* raise Exception("Unrecognized graph model: %s" % type)
Unrecognized(ty) == [type |-> "Exception", arg |-> ty]
\* obj.attr for an attribute the object does not have
AttributeError(a) == [type |-> "AttributeError", arg |-> a]

NoGraph == [cls |-> "", attrs |-> {}, N |-> 0, prms |-> <<>>, rho |-> <<>>, lkhd_scale |-> 0]
Created(obj) == [obj |-> obj, exc |-> NoException]
Failed(e) == [obj |-> NoGraph, exc |-> e]

\* the first of the keys that prms does not hold (<<>> when it holds all)
RECURSIVE FirstMissing(_, _)
FirstMissing(keys, prms) ==
    IF keys = <<>> THEN <<>>
    ELSE IF Head(keys) \notin DOMAIN prms THEN <<Head(keys)>>
    ELSE FirstMissing(Tail(keys), prms)

\* str.lower()
LowerChar(c) == IF IsIn(c, UpperCase) THEN LowerCase[IndexIn(c, UpperCase)] ELSE c
Lower(ty) == [i \in 1..Len(ty) |-> LowerChar(ty[i])]

\* CompleteGraphModel.__init__: self.A and self.log_p
CompleteA(n) == Ones(n)
CompleteLogPOfEdges == XLog(Unit - Unit)
CompleteLogP == Fin(0)
CompleteGraphModel(model) ==
    Created([NoGraph EXCEPT !.cls = "CompleteGraphModel", !.attrs = {"model", "A", "log_p"},
                            !.N = model.N, !.prms = model.prms])

\* ErdosRenyiGraphModel.__init__: self.rho
ErdosRenyiRho(prms, n) ==
    [p \in Pairs(n) |->
        IF p[1] = p[2] /\ "rho_refractory" \in DOMAIN prms
        THEN prms["rho_refractory"] ELSE prms["rho"]]

ErdosRenyiGraphModel(model) ==
    IF "rho" \notin DOMAIN model.prms THEN Failed(KeyError("rho"))
    ELSE Created([NoGraph EXCEPT
            !.cls = "ErdosRenyiGraphModel",
            !.attrs = {"model", "prms", "rho", "pA", "A", "lkhd_scale", "lkhd", "log_p"},
            !.N = model.N, !.prms = model.prms,
            !.rho = ErdosRenyiRho(model.prms, model.N),
            !.lkhd_scale = 1])

\* StochasticBlockGraphModel.__init__
StochasticBlockGraphModel(model) ==
    LET miss == FirstMissing(<<"R", "b0", "b1", "alpha0">>, model.prms)
    IN IF miss # <<>> THEN Failed(KeyError(miss[1]))
       ELSE Created([NoGraph EXCEPT
               !.cls = "StochasticBlockGraphModel",
               !.attrs = {"model", "prms", "N", "R", "B", "Y", "Yv", "Ym", "pA", "alpha",
                          "b0", "b1", "alpha0", "A", "log_p"},
               !.N = model.N, !.prms = model.prms])

\* LatentDistanceGraphModel.__init__
LatentDistanceGraphModel(model) ==
    LET miss == FirstMissing(<<"N_dims", "location_prior">>, model.prms)
    IN IF miss # <<>> THEN Failed(KeyError(miss[1]))
       ELSE Created([NoGraph EXCEPT
               !.cls = "LatentDistanceGraphModel",
               !.attrs = {"model", "prms", "N", "N_dims", "location_prior", "L", "Lm", "D",
                          "delta", "A", "pA", "lkhd_scale", "lkhd", "log_p"},
               !.N = model.N, !.prms = model.prms,
               !.lkhd_scale = 1])

\* create_graph_component(model)
DispatchNoElse(ty, model) ==
    IF ty = <<"e","r","d","o","s","_","r","e","n","y","i">>
          \/ ty = <<"e","r","d","o","s","r","e","n","y","i">>
    THEN ErdosRenyiGraphModel(model)
    ELSE IF ty = <<"s","b","m">> THEN StochasticBlockGraphModel(model)
    ELSE IF ty = <<"d","i","s","t","a","n","c","e">> THEN LatentDistanceGraphModel(model)
    ELSE CompleteGraphModel(model)
Dispatch(ty, model) ==
    IF ty = <<"c","o","m","p","l","e","t","e">> THEN CompleteGraphModel(model)
    ELSE IF ty = <<"e","r","d","o","s","_","r","e","n","y","i">>
          \/ ty = <<"e","r","d","o","s","r","e","n","y","i">>
    THEN ErdosRenyiGraphModel(model)
    ELSE IF ty = <<"s","b","m">> THEN StochasticBlockGraphModel(model)
    ELSE IF ty = <<"d","i","s","t","a","n","c","e">> THEN LatentDistanceGraphModel(model)
    ELSE Failed(Unrecognized(ty))

create_graph_component(model) == Dispatch(Lower(model.type), model)

(***************************************************************************)
(* components/graph.py: log probability and sampling                        *)
(*                                                                          *)
(* A state is a record of the values bound to the model's variables: the   *)
(* adjacency matrix A and, per variant, Y, B, alpha or L, delta.           *)
(***************************************************************************)
NoState == [A |-> <<>>, Y |-> <<>>, B |-> <<>>, alpha |-> <<>>, L |-> <<>>, delta |-> 0]

\* A * log(p1) + (1 - A) * log(p0), summed over the matrix
BernoulliSum(n, A, p1, p0) ==
    SumSet(Pairs(n), [p \in Pairs(n) |->
        XAdd(XMulInt(A[p], XLog(p1[p])), XMulInt(1 - A[p], XLog(p0[p])))])

\* ErdosRenyiGraphModel: the arguments of the two np.log calls
ErdosRenyiLog1(g) == [p \in Pairs(g.N) |-> Min(Unit - Eps, g.rho[p])]
ErdosRenyiLog0(g) == [p \in Pairs(g.N) |-> Max(Eps, Unit - g.rho[p])]
\* self.lkhd and self.log_p
ErdosRenyiLkhd(g, x) == BernoulliSum(g.N, x.A, ErdosRenyiLog1(g), ErdosRenyiLog0(g))
ErdosRenyiLogP(g, x) == XMulInt(g.lkhd_scale, ErdosRenyiLkhd(g, x))

\* StochasticBlockGraphModel: self.pA = self.B[self.Ym, T.transpose(self.Ym)]
StochasticBlockPA(g, x) == [p \in Pairs(g.N) |-> x.B[<<x.Y[p[1]], x.Y[p[2]]>>]]
\* log_p_B, log_p_alpha, log_p_A and self.log_p
StochasticBlockLogPB(g, x) ==
    SumSet(DOMAIN x.B, [e \in DOMAIN x.B |->
        XAdd(XMulInt(g.prms["b0"] - 1, XLog(x.B[e])),
             XMulInt(g.prms["b1"] - 1, XLog(Unit - x.B[e])))])
StochasticBlockLogPAlpha(g, x) ==
    SumSet(DOMAIN x.alpha, [r \in DOMAIN x.alpha |->
        XMulInt(g.prms["alpha0"] - 1, XLog(x.alpha[r]))])
StochasticBlockLkhd(g, x) ==
    LET pA == StochasticBlockPA(g, x)
    IN BernoulliSum(g.N, x.A, pA, [p \in Pairs(g.N) |-> Unit - pA[p]])
StochasticBlockLogP(g, x) ==
    XAdd(XAdd(StochasticBlockLogPB(g, x), StochasticBlockLogPAlpha(g, x)),
         StochasticBlockLkhd(g, x))

\* LatentDistanceGraphModel: self.D = T.pow(L1-L2,2).sum(axis=2)
Dims(g) == 1..g.prms["N_dims"]
RECURSIVE SumInts(_, _)
SumInts(S, t) ==
    IF S = {} THEN 0 ELSE LET e == CHOOSE e \in S : TRUE IN t[e] + SumInts(S \ {e}, t)
LatentDistanceD(g, L) ==
    [p \in Pairs(g.N) |->
        SumInts(Dims(g), [d \in Dims(g) |->
            (L[<<p[1], d>>] - L[<<p[2], d>>]) * (L[<<p[1], d>>] - L[<<p[2], d>>])])]

\* T.exp(-0.5*D/delta**2), quantised to 2^-ceil(0.5*D/delta^2): it keeps
\* exp(0) = 1, and a value in (0, 1) that decreases with D otherwise
RECURSIVE Halve(_, _)
Halve(v, k) == IF k = 0 THEN v ELSE Halve(v \div 2, k - 1)
ExpNegHalf(D, delta) == Halve(Unit, (D + 2 * delta * delta - 1) \div (2 * delta * delta))

\* self.pA, with self.pA += T.eye(self.N) * (self.prms['rho_refractory']-self.pA)
LatentDistancePA(g, x) ==
    LET D == LatentDistanceD(g, x.L)
    IN [p \in Pairs(g.N) |->
          IF p[1] = p[2] /\ "rho_refractory" \in DOMAIN g.prms
          THEN g.prms["rho_refractory"] ELSE ExpNegHalf(D[p], x.delta)]

\* self.location_prior.log_p(self.Lm): the collaborator's log density, a
\* finite number (here that of a standard normal, up to scale)
LocationPriorLogP(g, L) == Fin(0 - SumInts(DOMAIN L, [e \in DOMAIN L |-> L[e] * L[e]]))

\* self.lkhd and self.log_p
LatentDistanceLkhd(g, x) ==
    LET pA == LatentDistancePA(g, x)
    IN BernoulliSum(g.N, x.A, pA, [p \in Pairs(g.N) |-> Unit - pA[p]])
LatentDistanceLogP(g, x) ==
    XAdd(XMulInt(g.lkhd_scale, LatentDistanceLkhd(g, x)), LocationPriorLogP(g, x.L))

\* the value of graph.log_p in state x
LogP(g, x) ==
    IF g.cls = "CompleteGraphModel" THEN CompleteLogP
    ELSE IF g.cls = "ErdosRenyiGraphModel" THEN ErdosRenyiLogP(g, x)
    ELSE IF g.cls = "StochasticBlockGraphModel" THEN StochasticBlockLogP(g, x)
    ELSE LatentDistanceLogP(g, x)

\* the probabilities the evaluation of log_p passes to a logarithm
LogArguments(g, x) ==
    IF g.cls = "ErdosRenyiGraphModel"
    THEN {ErdosRenyiLog1(g)[p] : p \in Pairs(g.N)} \cup {ErdosRenyiLog0(g)[p] : p \in Pairs(g.N)}
    ELSE IF g.cls = "StochasticBlockGraphModel"
    THEN UNION {{x.B[e], Unit - x.B[e]} : e \in DOMAIN x.B}
         \cup {x.alpha[r] : r \in DOMAIN x.alpha}
         \cup UNION {{StochasticBlockPA(g, x)[p], Unit - StochasticBlockPA(g, x)[p]} :
                        p \in Pairs(g.N)}
    ELSE IF g.cls = "LatentDistanceGraphModel"
    THEN UNION {{LatentDistancePA(g, x)[p], Unit - LatentDistancePA(g, x)[p]} :
                   p \in Pairs(g.N)}
    ELSE {}

\* A = np.random.rand(N, N) < pA: rand is uniform on [0, 1)
Bernoulli(n, pA) ==
    {A \in [Pairs(n) -> {0, 1}] :
        \A p \in Pairs(n) : (A[p] = 1 => pA[p] > 0) /\ (A[p] = 0 => pA[p] < Unit)}

Sampled(x) == [ok |-> TRUE, x |-> x, exc |-> NoException]
SampleFailed(e) == [ok |-> FALSE, x |-> NoState, exc |-> e]

\* Component.sample, which CompleteGraphModel inherits: the model's constant
\* adjacency matrix
CompleteSample(g) == {Sampled([NoState EXCEPT !.A = CompleteA(g.N)])}

\* ErdosRenyiGraphModel.sample
ErdosRenyiSample(g) == {Sampled([NoState EXCEPT !.A = A]) : A \in Bernoulli(g.N, g.rho)}

\* the draws of the latent variables: block probabilities and connection
\* probabilities strictly inside (0, 1), locations on an integer grid
Locations == {0, 1}
Blocks(g) == 0..(g.prms["R"] - 1)
ProbGrid == {Unit \div 4, Unit \div 2, 3 * (Unit \div 4)}
\* np.random.dirichlet(self.alpha0)
Dirichlet(g) ==
    {a \in [Blocks(g) -> ProbGrid] : SumInts(Blocks(g), a) = Unit}
\* np.random.beta(self.b0, self.b1, (self.R, self.R))
Beta(g) == [Blocks(g) \X Blocks(g) -> {Unit \div 4, Unit \div 2}]
\* np.random.choice(self.R, size=self.N, p=alpha)
Choice(g, alpha) == [1..g.N -> {r \in Blocks(g) : alpha[r] > 0}]
\* self.location_prior.sample(size=(self.N,self.N_dims))
LocationPriorSample(g) == [(1..g.N) \X Dims(g) -> Locations]

\* StochasticBlockGraphModel.sample
StochasticBlockSample(g) ==
    UNION {UNION {UNION {
        {Sampled([NoState EXCEPT !.A = A, !.Y = Y, !.B = B, !.alpha = alpha]) :
            A \in Bernoulli(g.N, StochasticBlockPA(g, [NoState EXCEPT !.B = B, !.Y = Y]))} :
        Y \in Choice(g, alpha)} : B \in Beta(g)} : alpha \in Dirichlet(g)}

\* perm = np.argsort(L[:,0]); L = L[perm, :]
SortRows(g, L) ==
    LET perm == CHOOSE q \in [1..g.N -> 1..g.N] :
                   /\ \A i, j \in 1..g.N : i # j => q[i] # q[j]
                   /\ \A i, j \in 1..g.N :
                        i < j => \/ L[<<q[i], 1>>] < L[<<q[j], 1>>]
                                 \/ L[<<q[i], 1>>] = L[<<q[j], 1>>] /\ q[i] < q[j]
    IN [e \in DOMAIN L |-> L[<<perm[e[1]], e[2]>>]]

\* LatentDistanceGraphModel.sample
LatentDistanceSample(g) ==
    IF "sorted" \notin DOMAIN g.prms THEN {SampleFailed(KeyError("sorted"))}
    ELSE IF "delta" \notin DOMAIN g.prms THEN {SampleFailed(KeyError("delta"))}
    ELSE UNION {
        LET L == IF g.prms["sorted"] = 1 THEN SortRows(g, L0) ELSE L0
            lx == [NoState EXCEPT !.L = L, !.delta = g.prms["delta"]]
        IN {Sampled([lx EXCEPT !.A = A]) : A \in Bernoulli(g.N, LatentDistancePA(g, lx))} :
        L0 \in LocationPriorSample(g)}

\* graph.sample()
Sample(g) ==
    IF g.cls = "CompleteGraphModel" THEN CompleteSample(g)
    ELSE IF g.cls = "ErdosRenyiGraphModel" THEN ErdosRenyiSample(g)
    ELSE IF g.cls = "StochasticBlockGraphModel" THEN StochasticBlockSample(g)
    ELSE LatentDistanceSample(g)

(***************************************************************************)
(* State                                                                    *)
(***************************************************************************)
VARIABLES
    pc,         \* the phase of the run
    syms,       \* the symbol tree of the call
    vals,       \* the value tree of the call
    defaults,   \* the defaults of the call
    sargs,      \* the list _flatten(syms) returned
    ret,        \* what the call returned or raised
    expr,       \* the expression of the call
    givens,     \* the conditioning of the call
    _func_cache,\* the cache: key -> compiled evaluator
    f,          \* the evaluator the call looked up or compiled
    ncompiled,  \* how many times theano.function has been called
    seen,       \* the keys the calls so far have computed
    hit,        \* whether the call found its key in the cache
    gpc,        \* the phase of the graph component's run
    model,      \* the configuration: [type, N, prms]
    graph,      \* the graph component create_graph_component returned
    exc,        \* the exception the last operation raised
    x,          \* the state sample() returned or log_p was evaluated in
    lp          \* the value of log_p

flatvars == <<pc, syms, vals, defaults, sargs, ret>>
cachevars == <<expr, givens, _func_cache, f, ncompiled, seen, hit>>
graphvars == <<gpc, model, graph, exc, x, lp>>
vars == <<flatvars, cachevars, graphvars>>

\* the cache module as loaded: _func_cache = {}
InitCache ==
    /\ expr = ""
    /\ givens = <<>>
    /\ _func_cache = <<>>
    /\ f = NoFunction
    /\ ncompiled = 0
    /\ seen = {}
    /\ hit = FALSE

\* no graph component configured
NoModel == [type |-> <<>>, N |-> 0, prms |-> <<>>]
IdleGraph ==
    /\ gpc = "idle"
    /\ model = NoModel
    /\ graph = NoGraph
    /\ exc = NoException
    /\ x = NoState
    /\ lp = Fin(0)

(***************************************************************************)
(* SpecFlat: _flatten and _extract_vals applied to every bounded input     *)
(***************************************************************************)
InitFlat ==
    /\ pc = "built"
    /\ syms \in SymTrees
    /\ vals = None
    /\ defaults = None
    /\ sargs = <<>>
    /\ ret = Returned(<<>>)
    /\ InitCache
    /\ IdleGraph

\* sargs = _flatten(syms)
flatten_call ==
    /\ pc = "built"
    /\ sargs' = _flatten(syms)
    /\ pc' = "flat"
    /\ UNCHANGED <<syms, vals, defaults, ret, cachevars, graphvars>>

\* args = _extract_vals(syms, vals, defaults)
extract_call ==
    /\ pc = "flat"
    /\ \E v \in ValTrees(syms), d \in DefaultTrees(syms) :
          /\ vals' = v
          /\ defaults' = d
          /\ ret' = _extract_vals(syms, v, d)
    /\ pc' = "done"
    /\ UNCHANGED <<syms, sargs, cachevars, graphvars>>

NextFlat == flatten_call \/ extract_call

SpecFlat == InitFlat /\ [][NextFlat]_vars

(***************************************************************************)
(* Spec: calls of seval on the process-wide cache                           *)
(***************************************************************************)
MaxCompiles == 2

Exprs == {"log_p", "lkhd"}

\* symbol trees of the calls: two leaves in either enumeration order, one leaf
CallSyms ==
    {t \in SymTrees : /\ <<"a">> \in DOMAIN t.map
                      /\ \A k \in DOMAIN t.map : ~IsDict(t.map[k])}

\* conditioning lists: none, or one substitution for the symbol "g" by an
\* int8 array: a row or a column of the same elements, or a row of others
GivenArrays ==
    {NdArray(<<1, 2>>, <<0, 1>>), NdArray(<<2, 1>>, <<0, 1>>), NdArray(<<1, 2>>, <<1, 1>>)}
CallGivens == {<<>>} \cup {<< <<SymNode("g"), v>> >> : v \in GivenArrays}

\* the tree that holds a value for every symbol of d
RECURSIVE FullDict(_, _)
FullDict(d, tag) ==
    [order |-> d.order,
     map |-> [k \in DOMAIN d.map |->
                IF IsDict(d.map[k]) THEN DictNode(FullDict(d.map[k].v, tag))
                ELSE ValueOf(tag, d.map[k].v)]]

\* the values of a call: all in vals, all in defaults, or none at all
CallValues(sy) ==
    {<<DictNode(FullDict(sy, "vals")), None>>,
     <<DictNode(EmptyDict), DictNode(FullDict(sy, "defaults"))>>,
     <<DictNode(EmptyDict), None>>}

Init ==
    /\ pc = "loaded"
    /\ syms = EmptyDict
    /\ vals = None
    /\ defaults = None
    /\ sargs = <<>>
    /\ ret = Returned(<<>>)
    /\ InitCache
    /\ IdleGraph

\* seval(expr, syms, vals, defaults, givens)
seval(e, sy, v, d, gs) ==
    LET key == CacheKey(e, sy, gs)
        found == key \in DOMAIN _func_cache
        fn == IF found THEN _func_cache[key]
              ELSE TheanoFunction(_flatten(sy), e, gs)
        args == _extract_vals(sy, v, d)
    IN /\ found \/ ncompiled < MaxCompiles
       /\ _func_cache' = IF found THEN _func_cache ELSE CacheStore(_func_cache, key, fn)
       /\ ncompiled' = IF found THEN ncompiled ELSE ncompiled + 1
       /\ f' = fn
       /\ hit' = found
       /\ seen' = seen \cup {key}
       /\ ret' = IF args.ok THEN Apply(fn, args.l) ELSE args
       /\ expr' = e
       /\ syms' = sy
       /\ vals' = v
       /\ defaults' = d
       /\ givens' = gs
       /\ pc' = "called"
       /\ UNCHANGED <<sargs, graphvars>>

Next ==
    \E e \in Exprs, sy \in CallSyms, gs \in CallGivens :
        \E vd \in CallValues(sy) : seval(e, sy, vd[1], vd[2], gs)

Spec == Init /\ [][Next]_vars

(***************************************************************************)
(* SpecGraph: a graph component is created from a configuration, its       *)
(* likelihood scale is set, and it is sampled or its log_p evaluated        *)
(***************************************************************************)
MaxN == 2
MaxScale == 2

TypeStrings ==
    {<<"c","o","m","p","l","e","t","e">>, <<"C","o","m","p","l","e","t","e">>,
     <<"e","r","d","o","s","_","r","e","n","y","i">>, <<"e","r","d","o","s","r","e","n","y","i">>,
     <<"s","b","m">>, <<"S","B","M">>,
     <<"d","i","s","t","a","n","c","e">>, <<"d","i","s","t">>, <<>>}

\* the options a configuration of each type may hold, with their values
Options(ty) ==
    IF ty = <<"e","r","d","o","s","_","r","e","n","y","i">>
          \/ ty = <<"e","r","d","o","s","r","e","n","y","i">>
    THEN [k \in {"rho", "rho_refractory"} |->
            IF k = "rho" THEN {0, Unit \div 2, Unit} ELSE {Unit}]
    ELSE IF ty = <<"s","b","m">> THEN [k \in {"R", "b0", "b1", "alpha0"} |-> {2}]
    ELSE IF ty = <<"d","i","s","t","a","n","c","e">>
    THEN [k \in {"N_dims", "location_prior", "delta", "sorted", "rho_refractory"} |->
            IF k = "sorted" THEN {0, 1} ELSE IF k = "rho_refractory" THEN {Unit} ELSE {1}]
    ELSE <<>>

\* every prms that holds some of the options, each with one of its values
PrmsOf(opts) ==
    UNION {{pr \in [S -> UNION {opts[k] : k \in S}] : \A k \in S : pr[k] \in opts[k]} :
           S \in SUBSET (DOMAIN opts)}

\* the numbers of nodes: up to MaxN, and one or two for the variants with
\* latent variables
LatentSizes == {1, 2}
Sizes(ty) ==
    IF ty \in {<<"s","b","m">>, <<"d","i","s","t","a","n","c","e">>}
    THEN LatentSizes \cap (1..MaxN) ELSE 1..MaxN

Models ==
    UNION {{[type |-> ty, N |-> n, prms |-> pr] :
              n \in Sizes(Lower(ty)), pr \in PrmsOf(Options(Lower(ty)))} :
           ty \in TypeStrings}

\* the states log_p can be evaluated in: any adjacency matrix, any latent
\* values of the draws above
States(g) ==
    LET As == [Pairs(g.N) -> {0, 1}]
    IN IF g.cls = "StochasticBlockGraphModel"
       THEN {[NoState EXCEPT !.A = A, !.Y = Y, !.B = B, !.alpha = al] :
                A \in As, Y \in [1..g.N -> Blocks(g)], B \in Beta(g), al \in Dirichlet(g)}
       ELSE IF g.cls = "LatentDistanceGraphModel"
       THEN {[NoState EXCEPT !.A = A, !.L = L, !.delta = 1] :
                A \in As, L \in LocationPriorSample(g)}
       ELSE {[NoState EXCEPT !.A = A] : A \in As}

InitGraph ==
    /\ gpc = "configured"
    /\ model \in Models
    /\ graph = NoGraph
    /\ exc = NoException
    /\ x = NoState
    /\ lp = Fin(0)
    /\ pc = "idle"
    /\ syms = EmptyDict
    /\ vals = None
    /\ defaults = None
    /\ sargs = <<>>
    /\ ret = Returned(<<>>)
    /\ InitCache

\* graph = create_graph_component(model)
create ==
    /\ gpc = "configured"
    /\ LET r == create_graph_component(model)
       IN /\ graph' = r.obj
          /\ exc' = r.exc
          /\ gpc' = IF r.exc = NoException THEN "created" ELSE "failed"
    /\ UNCHANGED <<model, x, lp, flatvars, cachevars>>

\* graph.lkhd_scale.set_value(s)
set_value(s) ==
    /\ gpc = "created"
    /\ IF "lkhd_scale" \in graph.attrs
       THEN graph' = [graph EXCEPT !.lkhd_scale = s] /\ UNCHANGED <<exc, gpc>>
       ELSE /\ exc' = AttributeError("lkhd_scale")
            /\ gpc' = "failed"
            /\ UNCHANGED graph
    /\ UNCHANGED <<model, x, lp, flatvars, cachevars>>

\* x = graph.sample()
sample ==
    /\ gpc = "created"
    /\ \E r \in Sample(graph) :
          /\ x' = r.x
          /\ exc' = r.exc
          /\ gpc' = IF r.ok THEN "sampled" ELSE "failed"
    /\ UNCHANGED <<model, graph, lp, flatvars, cachevars>>

\* the value of graph.log_p with the variables bound to the state x0
log_p ==
    /\ gpc = "created"
    /\ \E x0 \in States(graph) :
          /\ x' = x0
          /\ lp' = LogP(graph, x0)
    /\ gpc' = "evaluated"
    /\ UNCHANGED <<model, graph, exc, flatvars, cachevars>>

NextGraph ==
    \/ create
    \/ \E s \in 0..MaxScale : set_value(s)
    \/ sample
    \/ log_p

SpecGraph == InitGraph /\ [][NextGraph]_vars

(***************************************************************************)
(* Claims about _flatten and _extract_vals (checked under SpecFlat)        *)
(***************************************************************************)
\* the object found by following `path` from object n (None when absent)
RECURSIVE Walk(_, _)
Walk(n, path) == IF path = <<>> THEN n ELSE Walk(TryGet(n, Head(path)), Tail(path))

\* the leaf symbols of a symbol tree, and the paths of all its keys
RECURSIVE LeavesOf(_)
LeavesOf(d) ==
    UNION {IF IsDict(d.map[k]) THEN LeavesOf(d.map[k].v) ELSE {d.map[k]} : k \in DOMAIN d.map}

RECURSIVE PathsOf(_, _)
PathsOf(d, prefix) ==
    UNION {{Append(prefix, k)} \cup
           (IF IsDict(d.map[k]) THEN PathsOf(d.map[k].v, Append(prefix, k)) ELSE {}) :
           k \in DOMAIN d.map}

\* a symbol of SymTrees is identified by its path, so the value bound to it is
\* the one its path leads to: in value_tree, else in defaults
InVals(s) == Walk(vals, s.v)
InDefaults(s) == Walk(defaults, s.v)
Bound(s) == IF ~IsNone(InVals(s)) THEN InVals(s) ELSE InDefaults(s)

LeafComplete == \A s \in LeavesOf(syms) : ~IsNone(Bound(s))
KeyComplete ==
    \A p \in PathsOf(syms, <<>>) : ~IsNone(Walk(vals, p)) \/ ~IsNone(Walk(defaults, p))
Aligned ==
    /\ ret.ok
    /\ Len(ret.l) = Len(sargs)
    /\ \A i \in 1..Len(sargs) : ret.l[i] = Bound(sargs[i])

\* C3 as stated: whenever value_tree/defaults supply a value for each leaf,
\* the extracted argument list has the length of the flattened symbol list
\* and its i-th element is the value bound to the i-th flattened symbol.
C3_AsStated == (pc = "done" /\ LeafComplete) => Aligned

\* C3 amended: whenever value_tree/defaults hold an entry for every key of the
\* symbol tree (each leaf and each nested mapping, an empty one included), the
\* extracted argument list has the length of the flattened symbol list and
\* its i-th element is the value bound to the i-th flattened symbol.
C3_ExtractAligned == (pc = "done" /\ KeyComplete) => Aligned

\* the case of C3: a nested tree enumerated out of key order, resolved partly
\* from value_tree and partly from defaults
C3_Witness ==
    /\ pc = "done" /\ KeyComplete /\ ret.ok
    /\ Len(sargs) = 3
    /\ syms.order = << <<"a", "b">>, <<"a">> >>
    /\ \E i, j \in 1..Len(sargs) : ret.l[i].v[1] = "vals" /\ ret.l[j].v[1] = "defaults"
    /\ \E k \in DOMAIN syms.map :
          IsDict(syms.map[k]) /\ syms.map[k].v.order = << <<"a", "b">>, <<"a">> >>

\* the keys of the symbol tree that neither value_tree nor defaults holds
MissingPaths ==
    {p \in PathsOf(syms, <<>>) : IsNone(Walk(vals, p)) /\ IsNone(Walk(defaults, p))}

\* C4: each leaf takes its value from value_tree, else from defaults,
\* value_tree first when both hold one; when a symbol is in neither, the call
\* raises an error that names the path of a missing symbol and returns no
\* value.
C4_Resolution ==
    pc = "done" =>
        /\ ret.ok =>
             \A i \in 1..Len(sargs) :
                ret.l[i] = (IF ~IsNone(InVals(sargs[i])) THEN InVals(sargs[i])
                            ELSE InDefaults(sargs[i]))
        /\ ~LeafComplete => (~ret.ok /\ ret.l = <<>> /\ ret.msg \in MissingPaths)

\* the mapping rebuilt by inserting the items of d in reverse order, at every
\* nesting level
RECURSIVE BuildReversed(_)
BuildReversed(d) ==
    LET its == Items(d)
        RECURSIVE ins(_, _)
        ins(i, acc) ==
            IF i = 0 THEN acc
            ELSE ins(i - 1, DictSet(acc, its[i][1],
                                    IF IsDict(its[i][2])
                                    THEN DictNode(BuildReversed(its[i][2].v))
                                    ELSE its[i][2]))
    IN ins(Len(its), EmptyDict)

\* C10: flattening the mapping built by inserting the keys in reverse order
\* yields the same ordered leaf sequence as flattening the mapping built in
\* forward order, and so the same signature for the cache key.
C10_FlattenOrderFree ==
    pc # "built" =>
        /\ sargs = _flatten(BuildReversed(syms))
        /\ hashable_syms(syms) = hashable_syms(BuildReversed(syms))

\* the case of C10: two levels with two keys each, so that the two builds
\* enumerate their keys in different orders
C10_Witness ==
    /\ pc = "flat"
    /\ Len(sargs) = 3
    /\ BuildReversed(syms).order # syms.order
    /\ \E k \in DOMAIN syms.map :
          IsDict(syms.map[k]) /\ BuildReversed(syms).map[k].v.order # syms.map[k].v.order

(***************************************************************************)
(* Claims about seval and its cache (checked under Spec)                    *)
(***************************************************************************)
\* C1: the evaluator that serves a call was compiled for the call's own
\* expression, flattened symbols and conditioning content; conditioning that
\* differs in content, arrays included, is never served by an evaluator
\* compiled for other content.
C1_NoStaleEvaluator ==
    pc = "called" => f = TheanoFunction(_flatten(syms), expr, givens)

\* C2: theano.function has been called once per cache entry and once per
\* distinct key computed so far; no step removes or replaces an entry; a call
\* whose key is cached compiles nothing, leaves the cache as it is and
\* applies the cached evaluator to the arguments extracted in that call.
C2_Counts ==
    /\ ncompiled = Cardinality(DOMAIN _func_cache)
    /\ DOMAIN _func_cache = seen
C2_Step ==
    /\ \A k \in DOMAIN _func_cache :
          k \in DOMAIN _func_cache' /\ _func_cache'[k] = _func_cache[k]
    /\ LET key == CacheKey(expr', syms', givens')
           args == _extract_vals(syms', vals', defaults')
       IN key \in DOMAIN _func_cache =>
             /\ ncompiled' = ncompiled
             /\ _func_cache' = _func_cache
             /\ args.ok => ret' = Apply(_func_cache[key], args.l)
C2_CompileOnce == []C2_Counts /\ [][C2_Step]_vars

\* the case of C2: a call served from the cache, after two compilations, with
\* its arguments taken from defaults
C2_Witness ==
    /\ pc = "called" /\ hit /\ ncompiled >= 2
    /\ ret.ok
    /\ ret.l[1].args[1].v[1] = "defaults"

\* the key of the last call
CallKey == CacheKey(expr, syms, givens)

\* after any call, failed or not, the key of the call is in the cache
C11_Stored == pc = "called" => CallKey \in DOMAIN _func_cache
C11_Step ==
    LET key == CacheKey(expr', syms', givens')
    IN  pc' = "called" =>
            \* no call, failed or not, removes or replaces an entry
            /\ \A k \in DOMAIN _func_cache :
                  k \in DOMAIN _func_cache' /\ _func_cache'[k] = _func_cache[k]
            \* a call with a cached key compiles nothing, failed or not
            /\ key \in DOMAIN _func_cache =>
                  /\ _func_cache' = _func_cache
                  /\ ncompiled' = ncompiled
                  /\ hit'
            \* a call that raises with a new key has compiled and stored
            /\ (~ret'.ok /\ key \notin DOMAIN _func_cache) =>
                  /\ ret'.msg # <<>>
                  /\ DOMAIN _func_cache' = (DOMAIN _func_cache) \cup {key}
                  /\ Cardinality(DOMAIN _func_cache') =
                        Cardinality(DOMAIN _func_cache) + 1
                  /\ _func_cache'[key] = TheanoFunction(_flatten(syms'), expr', givens')
                  /\ ncompiled' = ncompiled + 1
                  /\ ~hit'

BernoulliVariants ==
    {"ErdosRenyiGraphModel", "StochasticBlockGraphModel", "LatentDistanceGraphModel"}

\* C5: in every variant with a Bernoulli likelihood, each probability passed
\* to a logarithm lies in [eps, 1 - eps], eps = 1e-8, and log_p is finite for
\* every adjacency matrix in {0,1}^(NxN).
C5_Clamped ==
    (gpc = "evaluated" /\ graph.cls \in BernoulliVariants) =>
        /\ \A p \in LogArguments(graph, x) : Eps <= p /\ p <= Unit - Eps
        /\ lp.cls = "fin"

\* the likelihood term and the prior terms of each variant's log_p
LkhdTerm(g, s) ==
    IF g.cls = "ErdosRenyiGraphModel" THEN ErdosRenyiLkhd(g, s)
    ELSE IF g.cls = "StochasticBlockGraphModel" THEN StochasticBlockLkhd(g, s)
    ELSE LatentDistanceLkhd(g, s)
PriorTerms(g, s) ==
    IF g.cls = "ErdosRenyiGraphModel" THEN Fin(0)
    ELSE IF g.cls = "StochasticBlockGraphModel"
    THEN XAdd(StochasticBlockLogPB(g, s), StochasticBlockLogPAlpha(g, s))
    ELSE LocationPriorLogP(g, s.L)

\* C6: every variant with a likelihood term has a scalar lkhd_scale, 1 when
\* the component is created, and its log_p is lkhd_scale times the likelihood
\* term plus the unscaled prior terms.
C6_LkhdScale ==
    graph.cls \in BernoulliVariants =>
        /\ "lkhd_scale" \in graph.attrs
        /\ create_graph_component(model).obj.lkhd_scale = 1
        /\ gpc = "evaluated" =>
              lp = XAdd(XMulInt(graph.lkhd_scale, LkhdTerm(graph, x)), PriorTerms(graph, x))

\* the options the configuration of each variant must hold
RequiredOptions(ty) ==
    IF ty = <<"e","r","d","o","s","_","r","e","n","y","i">>
          \/ ty = <<"e","r","d","o","s","r","e","n","y","i">> THEN {"rho"}
    ELSE IF ty = <<"s","b","m">> THEN {"R", "b0", "b1", "alpha0"}
    ELSE IF ty = <<"d","i","s","t","a","n","c","e">> THEN {"N_dims", "delta", "location_prior"}
    ELSE {}

\* C7: when the configuration lacks a required option of its variant, create
\* fails with an error that names a missing key and returns no component.
MissingOptions == RequiredOptions(Lower(model.type)) \ DOMAIN model.prms
C7_MissingOptionFailsCreate ==
    (gpc # "configured" /\ MissingOptions # {}) =>
        /\ graph = NoGraph
        /\ gpc = "failed"
        /\ exc.arg \in MissingOptions

\* the variant the claim names for each type
ClassOf(ty) ==
    IF ty = <<"c","o","m","p","l","e","t","e">> THEN "CompleteGraphModel"
    ELSE IF ty = <<"e","r","d","o","s","_","r","e","n","y","i">> THEN "ErdosRenyiGraphModel"
    ELSE IF ty = <<"s","b","m">> THEN "StochasticBlockGraphModel"
    ELSE IF ty = <<"d","i","s","t","a","n","c","e">> THEN "LatentDistanceGraphModel"
    ELSE ""
RecognizedTypes ==
    {<<"c","o","m","p","l","e","t","e">>, <<"e","r","d","o","s","_","r","e","n","y","i">>,
     <<"e","r","d","o","s","r","e","n","y","i">>, <<"s","b","m">>,
     <<"d","i","s","t","a","n","c","e">>}

\* C8: for type 'complete', 'erdos_renyi', 'sbm' or 'distance' the component
\* create returns is of the Complete, ErdosRenyi, StochasticBlock or
\* LatentDistance class; for a type it does not recognize create raises the
\* "Unrecognized graph model" error and returns no component.
C8_CreateByType ==
    gpc # "configured" =>
        /\ (ClassOf(model.type) # "" /\ graph # NoGraph) => graph.cls = ClassOf(model.type)
        /\ (ClassOf(model.type) # "" /\ graph = NoGraph) =>
              (gpc = "failed" /\ exc.type = "KeyError")
        /\ Lower(model.type) \notin RecognizedTypes =>
              /\ graph = NoGraph
              /\ gpc = "failed"
              /\ exc = Unrecognized(Lower(model.type))

\* the case of C8: create has refused a type it does not recognize
C8_Witness ==
    /\ gpc = "failed"
    /\ model.type = <<"d","i","s","t">>
    /\ graph = NoGraph
    /\ exc.type = "Exception"

\* C9: the Complete variant's sample() returns the N x N all-ones matrix, and
\* its log_p is 0 in every state.
C9_Complete ==
    graph.cls = "CompleteGraphModel" =>
        /\ gpc = "sampled" => x.A = [p \in (1..model.N) \X (1..model.N) |-> 1]
        /\ gpc = "evaluated" => lp = Fin(0)

\* the case of C9: log_p evaluated for two nodes in a state without edges
C9_Witness ==
    /\ graph.cls = "CompleteGraphModel"
    /\ gpc = "evaluated"
    /\ model.N = 2
    /\ x.A = [p \in (1..2) \X (1..2) |-> 0]

====
